---- MODULE Spec2Model ----
(***************************************************************************)
(* A model of raynalm/sudoku_solver: main.py and sudoku_solver.py.         *)
(*                                                                         *)
(* The program reads a 9x9 puzzle text, turns it into CNF clauses over     *)
(* variables x_i_j_k, serialises them with the numbering 100*i + 10*j + k, *)
(* hands the file constraints.dimacs.tmp to minisat, reads out.tmp back    *)
(* and decodes the assignment into a grid.                                 *)
(*                                                                         *)
(* Three specifications:                                                   *)
(*   Spec       one run of main() on a puzzle text, the solver's answer    *)
(*              drawn from a family of assignments (C1, C2, C4..C9);       *)
(*   SpecCodec  one literal through to_int and the decoder's scan (C3);    *)
(*   SpecConc   two invocations of solution_from_dimacs_string that share  *)
(*              the working directory (C10).                               *)
(*                                                                         *)
(* Representation.                                                         *)
(*   - A character is a one-character string; a line is a sequence of      *)
(*     characters; a text is a sequence of lines (str.splitlines).         *)
(*   - Python's None is the integer None == -1: int(c) of one character    *)
(*     is never negative, so no cell value collides with it.               *)
(*   - A variable name "x_3_4_5" / "-x_3_4_5" is kept as the sequence of   *)
(*     its '_'-separated fields <<"x","3","4","5">> (what split('_')       *)
(*     returns); the fields are decimal strings.                           *)
(*   - A DIMACS text is [header |-> <<vars, clauses>>, clauses |-> lines], *)
(*     each line the sequence of its integer tokens, the final 0 included. *)
(***************************************************************************)
EXTENDS Integers, Sequences, FiniteSets

None == -1

----------------------------------------------------------------------------
(* Characters and int().                                                   *)

Digits == <<"0", "1", "2", "3", "4", "5", "6", "7", "8", "9">>

\* str(n) for a one-digit n (f"{i}" in the variable names).
Str(n) == Digits[n + 1]

IsDigitString(s) == \E n \in 0..9 : Digits[n + 1] = s

\* int(s) for a one-character string; "ValueError" when Python raises.
IntOf(s) == IF IsDigitString(s) THEN CHOOSE n \in 0..9 : Digits[n + 1] = s
            ELSE "ValueError"

----------------------------------------------------------------------------
(* grid_from_file                                                          *)

Blank == " "

\* line += " " * (9 - len(line)) when len(line) < 9
PadLine(line) ==
    IF Len(line) < 9 THEN line \o [n \in 1..(9 - Len(line)) |-> Blank]
    ELSE line

\* [int(c) if c != ' ' else None for c in line]; raises if some int(c) does
LineRaises(line) ==
    \E n \in 1..Len(line) : line[n] # Blank /\ ~IsDigitString(line[n])

LineCells(line) ==
    [n \in 1..Len(line) |-> IF line[n] # Blank THEN IntOf(line[n]) ELSE None]

GridRaises(lines) == \E r \in 1..Len(lines) : LineRaises(PadLine(lines[r]))

\* The grid is a sequence of rows, each a sequence of cells; grid[i][j] of
\* the source is grid[i + 1][j + 1] here.
grid_from_file(lines) ==
    LET rows == [r \in 1..Len(lines) |-> LineCells(PadLine(lines[r]))]
    IN  IF Len(rows) < 9
        THEN rows \o [r \in 1..(9 - Len(rows)) |-> [c \in 1..9 |-> None]]
        ELSE rows

Cell(grid, i, j) == grid[i + 1][j + 1]

----------------------------------------------------------------------------
(* constraints_from_grid                                                   *)

\* f"x_{i}_{j}_{k}" and f"-x_{i}_{j}_{k}", as the fields between '_'
Pos(i, j, k) == <<"x", Str(i), Str(j), Str(k)>>
Neg(i, j, k) == <<"-x", Str(i), Str(j), Str(k)>>

\* The cells of range(9) x range(9) in the order of the nested loops
\* "for i: for j:", as the sequence of pairs <<i, j>>.
CellsRowMajor == [n \in 1..81 |-> <<(n - 1) \div 9, (n - 1) % 9>>]

RECURSIVE GivenClausesFrom(_, _)
GivenClausesFrom(grid, n) ==
    IF n > 81 THEN <<>>
    ELSE LET i == CellsRowMajor[n][1]
             j == CellsRowMajor[n][2]
         IN  (IF Cell(grid, i, j) # None
              THEN << <<Pos(i, j, Cell(grid, i, j))>> >>
              ELSE <<>>) \o GivenClausesFrom(grid, n + 1)

\* Write grid information as constraints (lines 41-44)
GivenClauses(grid) == GivenClausesFrom(grid, 1)

\* There must be one number in each cell (lines 46-50): for j: for i
OccupancyClauses ==
    [n \in 1..81 |->
        LET j == (n - 1) \div 9
            i == (n - 1) % 9
        IN  [k \in 1..9 |-> Pos(i, j, k)]]

\* Fault seeded for C2: combinations_with_replacement, the pairs k1 <= k2.
Combinations2WithReplacement ==
    SelectSeq([n \in 1..81 |-> <<(n - 1) \div 9 + 1, ((n - 1) % 9) + 1>>],
              LAMBDA p : p[1] <= p[2])

\* combinations(range(1, 10), 2): the pairs k1 < k2 in lexicographic order
Combinations2 ==
    SelectSeq([n \in 1..81 |-> <<(n - 1) \div 9 + 1, ((n - 1) % 9) + 1>>],
              LAMBDA p : p[1] < p[2])

\* There cannot be two number at once in a cell (lines 52-57):
\* for k1, k2: for j: for i
UniquenessClauses ==
    [n \in 1..(Len(Combinations2) * 81) |->
        LET p == Combinations2[(n - 1) \div 81 + 1]
            j == ((n - 1) % 81) \div 9
            i == (n - 1) % 9
        IN  <<Neg(i, j, p[1]), Neg(i, j, p[2])>>]

\* Fault seeded for C5: the row clause ranges over i, as the column clause
\* does, so no clause covers a row.
RowClausesOverColumn ==
    [n \in 1..81 |->
        LET i == (n - 1) \div 9
            k == ((n - 1) % 9) + 1
        IN  [c \in 1..9 |-> Pos(c - 1, i, k)]]

\* rows (lines 60-63): for i: for k
RowClauses ==
    [n \in 1..81 |->
        LET i == (n - 1) \div 9
            k == ((n - 1) % 9) + 1
        IN  [c \in 1..9 |-> Pos(i, c - 1, k)]]

\* Fault seeded for C1: the column clause ranges over j, as the row clause
\* does, so no clause covers a column.
ColumnClausesOverRow ==
    [n \in 1..81 |->
        LET j == (n - 1) \div 9
            k == ((n - 1) % 9) + 1
        IN  [r \in 1..9 |-> Pos(j, r - 1, k)]]

\* columns (lines 65-68): for j: for k
ColumnClauses ==
    [n \in 1..81 |->
        LET j == (n - 1) \div 9
            k == ((n - 1) % 9) + 1
        IN  [r \in 1..9 |-> Pos(r - 1, j, k)]]

\* subsquares (lines 70-75): for shift_i: for shift_j: for k, each clause
\* "for i in range(3) for j in range(3)"
BoxClauses ==
    [n \in 1..81 |->
        LET shift_i == 3 * ((n - 1) \div 27)
            shift_j == 3 * (((n - 1) % 27) \div 9)
            k == ((n - 1) % 9) + 1
        IN  [m \in 1..9 |->
                Pos(shift_i + (m - 1) \div 3, shift_j + ((m - 1) % 3), k)]]

constraints_from_grid(grid) ==
    GivenClauses(grid) \o OccupancyClauses \o UniquenessClauses
        \o RowClauses \o ColumnClauses \o BoxClauses

----------------------------------------------------------------------------
(* dimacs_string_from_constraints                                          *)

\* Fault seeded for C3: the fields unpacked as i, j, k instead of k, j, i.
to_int_reversed(var_name) ==
    LET i == IntOf(var_name[Len(var_name)])
        j == IntOf(var_name[Len(var_name) - 1])
        k == IntOf(var_name[Len(var_name) - 2])
    IN  (100 * i + 10 * j + k) * (IF var_name[1] = "-x" THEN -1 ELSE 1)

\* var_name.split('_')[-i] for i in 1..3, int() of each, and the sign
to_int(var_name) ==
    LET k == IntOf(var_name[Len(var_name)])
        j == IntOf(var_name[Len(var_name) - 1])
        i == IntOf(var_name[Len(var_name) - 2])
    IN  (100 * i + 10 * j + k) * (IF var_name[1] = "-x" THEN -1 ELSE 1)

num_variables == 100 * 8 + 10 * 8 + 9

dimacs_string_from_constraints(constraints) ==
    [header  |-> <<num_variables, Len(constraints)>>,
     clauses |-> [n \in 1..Len(constraints) |->
                    [m \in 1..Len(constraints[n]) |->
                        to_int(constraints[n][m])] \o <<0>>]]

----------------------------------------------------------------------------
(* The decoding scan of solution_from_dimacs_string (lines 107-114)        *)

\* Fault seeded for C4: the test reads 100*j + 10*i + k.
DecodeCellTransposed(ids, i, j) ==
    LET hits == {k \in 1..9 : 100 * j + 10 * i + k \in ids}
    IN  IF hits = {} THEN None
        ELSE CHOOSE k \in hits : \A h \in hits : h <= k

\* for k in range(1, 10): if 100*i + 10*j + k in solution_as_str:
\*     solution_grid[i][j] = k
\* The last k that passes the test stays; None when none does.
DecodeCell(ids, i, j) ==
    LET hits == {k \in 1..9 : 100 * i + 10 * j + k \in ids}
    IN  IF hits = {} THEN None
        ELSE CHOOSE k \in hits : \A h \in hits : h <= k

DecodeGrid(ids) ==
    [r \in 1..9 |-> [c \in 1..9 |-> DecodeCell(ids, r - 1, c - 1)]]

----------------------------------------------------------------------------
(* What the claims speak of: truth assignments and Sudoku grids            *)

\* A solver's answer line is the set of its integer tokens; variable v is
\* true in it when the token v is there (minisat writes v or -v for every
\* variable, then 0).
LiteralHolds(lit, ids) ==
    IF lit > 0 THEN lit \in ids ELSE (0 - lit) \notin ids

\* The assignment makes every clause of the DIMACS text true (a clause line
\* ends with the token 0, which is no literal).
Satisfies(ids, cnf) ==
    \A n \in 1..Len(cnf.clauses) :
        \E m \in 1..(Len(cnf.clauses[n]) - 1) :
            LiteralHolds(cnf.clauses[n][m], ids)

\* minisat's answer line for the set of true variables
AnswerLine(trueIds) ==
    trueIds \cup {0 - v : v \in (1..num_variables) \ trueIds} \cup {0}

\* The variables true in "cell (i,j) holds g[i][j]"
IdsOfGrid(g) ==
    {100 * (r - 1) + 10 * (c - 1) + g[r][c] : r \in 1..9, c \in 1..9}

IsPermutation(cells) == {cells[n] : n \in 1..9} = 1..9

RowOf(g, i) == [c \in 1..9 |-> g[i + 1][c]]
ColumnOf(g, j) == [r \in 1..9 |-> g[r][j + 1]]
BoxOf(g, b) ==
    [m \in 1..9 |-> g[3 * (b \div 3) + (m - 1) \div 3 + 1]
                     [3 * (b % 3) + ((m - 1) % 3) + 1]]

\* Every row, column and 3x3 box holds each of 1..9 exactly once.
ValidSudoku(g) ==
    \A u \in 0..8 : /\ IsPermutation(RowOf(g, u))
                    /\ IsPermutation(ColumnOf(g, u))
                    /\ IsPermutation(BoxOf(g, u))

GivenCells(g) == {<<i, j>> \in (0..8) \X (0..8) : Cell(g, i, j) # None}

KeepsGivens(solution, g) ==
    \A ij \in GivenCells(g) :
        Cell(solution, ij[1], ij[2]) = Cell(g, ij[1], ij[2])

----------------------------------------------------------------------------
(* Inputs: puzzle texts and solver answers, drawn from bounded families    *)

\* Cell swaps are taken in the SwapSpan x SwapSpan corner of the grid.
SwapSpan == 2
\* Row swaps are taken among the first RowSpan rows (two bands when > 3).
RowSpan == 4
\* Cell (0,0) is overwritten with the digits 1..SetDigits.
SetDigits == 3
\* A text starts with 0..MaxLead empty lines.
MaxLead == 2
\* Cell (0,0) of an answer holds any subset of the digits 1..SubsetDigits.
SubsetDigits == 4
\* The first line of a text loses its last 1..MaxCut characters.
MaxCut == 1

\* A solved grid: row i is 1..9 rotated by 3*(i mod 3) + i div 3.
BaseGrid ==
    [r \in 1..9 |-> [c \in 1..9 |->
        ((3 * ((r - 1) % 3) + (r - 1) \div 3 + (c - 1)) % 9) + 1]]

SetCell(g, a, d) ==
    [r \in 1..9 |-> [c \in 1..9 |->
        IF <<r - 1, c - 1>> = a THEN d ELSE g[r][c]]]

SwapCells(g, a, b) ==
    [r \in 1..9 |-> [c \in 1..9 |->
        IF <<r - 1, c - 1>> = a THEN Cell(g, b[1], b[2])
        ELSE IF <<r - 1, c - 1>> = b THEN Cell(g, a[1], a[2])
        ELSE g[r][c]]]

SwapRows(g, r1, r2) ==
    [r \in 1..9 |-> IF r - 1 = r1 THEN g[r2 + 1]
                    ELSE IF r - 1 = r2 THEN g[r1 + 1] ELSE g[r]]

Corner == (0..(SwapSpan - 1)) \X (0..(SwapSpan - 1))

\* Full grids near BaseGrid: valid ones (BaseGrid, rows swapped inside a
\* band) and ones that break only rows, only columns, only boxes, or all.
Variants ==
    {BaseGrid}
        \cup {SwapCells(BaseGrid, a, b) : a \in Corner, b \in Corner}
        \cup {SwapRows(BaseGrid, r1, r2) :
                r1 \in 0..(RowSpan - 1), r2 \in 0..(RowSpan - 1)}
        \cup {SetCell(BaseGrid, <<0, 0>>, d) : d \in 1..SetDigits}

\* A character that replaces the one of cell (0,0); "" leaves it.
OverrideChars == {" ", "0", "x", "."}

\* The text of grid h with its first lo lines empty, cut after line hi,
\* and ch (if any) in place of the first character of the first line.
TextOf(h, lo, hi, ch) ==
    [n \in 1..hi |->
        IF n <= lo THEN <<>>
        ELSE [c \in 1..9 |->
                IF n = 1 /\ c = 1 /\ ch # "" THEN ch ELSE Str(h[n][c])]]

\* The text with its first line cut to its first 9 - t characters
CutFirstLine(lines, t) ==
    [n \in 1..Len(lines) |->
        IF n = 1 THEN SubSeq(lines[n], 1, 9 - t) ELSE lines[n]]

\* Texts of 0, 1 or 9 lines: every variant behind 0..MaxLead empty lines,
\* BaseGrid with one character replaced, BaseGrid with a short first line.
Texts ==
    {TextOf(h, lo, hi, "") :
        h \in Variants, lo \in 0..MaxLead, hi \in {0, 1, 9}}
        \cup {TextOf(BaseGrid, 0, hi, ch) : hi \in {1, 9}, ch \in OverrideChars}
        \cup {CutFirstLine(TextOf(BaseGrid, 0, hi, ""), t) :
                hi \in {1, 9}, t \in 1..MaxCut}

\* BaseGrid's assignment with cell (0,0) holding the digits of ks
CornerAnswer(ks) ==
    (IdsOfGrid(BaseGrid) \ (1..9)) \cup ks

\* What the solver may leave in out.tmp: the lines of the file.
Answers ==
    {<<"SAT", AnswerLine(IdsOfGrid(h))>> : h \in Variants}
        \cup {<<"SAT", AnswerLine(CornerAnswer(ks))>> :
                ks \in SUBSET (1..SubsetDigits)}
        \cup {<<>>, <<"UNSAT">>, <<"SAT">>, <<"INDET">>,
              <<"SATISFIABLE", AnswerLine(IdsOfGrid(BaseGrid))>>}

----------------------------------------------------------------------------
(* State                                                                   *)

\* The invocations of solution_from_dimacs_string that may run at once.
Procs == {1, 2}

CnfName == "constraints.dimacs.tmp"
OutName == "out.tmp"
FileNames == {CnfName, OutName}

VARIABLES
    text,       \* the lines of the puzzle file main() is given
    grid,       \* grid_from_file's result, <<>> before it returns
    dimacs,     \* dimacs[p]: the dimacs_str argument of invocation p
    pc,         \* pc[p]: where invocation p stands
    fs,         \* fs[name]: <<>> when the file is absent, else <<content>>
    solverIn,   \* solverIn[p]: <<>> or <<the CNF text p's minisat read>>
    answer,     \* answer[p]: solution_as_str, the content read from out.tmp
    ret,        \* ret[p]: what the invocation returned or raised
    stdout,     \* what main() printed
    codec       \* one literal on its way through to_int and the decoder's scan

vars == <<text, grid, dimacs, pc, fs, solverIn, answer, ret, stdout, codec>>

NoCnf == [header |-> <<0, 0>>, clauses |-> <<>>]
NoReturn == [kind |-> "none"]
Raised(exc) == [kind |-> "raised", exc |-> exc]

\* A content of out.tmp: its lines, and the invocation whose minisat wrote
\* them (by, which the program never reads).
OutContent(lines, p) == [lines |-> lines, by |-> p]

Exists(name) == fs[name] # <<>>

----------------------------------------------------------------------------
(* main(): lines 17-24 of main.py up to the call of                        *)
(* solution_from_dimacs_string                                             *)

\* grid_from_file(filename): int(c) raises ValueError on a character that
\* is no decimal digit.
ReadGrid(p) ==
    /\ pc[p] = "main"
    /\ IF GridRaises(text)
       THEN /\ pc' = [pc EXCEPT ![p] = "raised"]
            /\ ret' = [ret EXCEPT ![p] = Raised("ValueError")]
            /\ grid' = grid
       ELSE /\ pc' = [pc EXCEPT ![p] = "gridded"]
            /\ grid' = grid_from_file(text)
            /\ ret' = ret
    /\ UNCHANGED <<codec, text, dimacs, fs, solverIn, answer, stdout>>

\* dimacs_string_from_constraints(constraints_from_grid(grid))
Encode(p) ==
    /\ pc[p] = "gridded"
    /\ dimacs' = [dimacs EXCEPT
                    ![p] = dimacs_string_from_constraints(
                               constraints_from_grid(grid))]
    /\ pc' = [pc EXCEPT ![p] = "call"]
    /\ UNCHANGED <<codec, text, grid, fs, solverIn, answer, ret, stdout>>

----------------------------------------------------------------------------
(* solution_from_dimacs_string(dimacs_str)                                 *)

\* lines 94-95: open(..., 'w') creates or truncates the file, write, close
WriteCnf(p) ==
    /\ pc[p] = "call"
    /\ fs' = [fs EXCEPT ![CnfName] = <<dimacs[p]>>]
    /\ pc' = [pc EXCEPT ![p] = "written"]
    /\ UNCHANGED <<codec, text, grid, dimacs, solverIn, answer, ret, stdout>>

\* line 97, no minisat on the PATH: subprocess.run raises FileNotFoundError
SolverMissing(p) ==
    /\ pc[p] = "written"
    /\ pc' = [pc EXCEPT ![p] = "raised"]
    /\ ret' = [ret EXCEPT ![p] = Raised("FileNotFoundError")]
    /\ UNCHANGED <<codec, text, grid, dimacs, fs, solverIn, answer, stdout>>

\* line 97, minisat opens its input. When the file is gone it exits with
\* an error and writes nothing; subprocess.run (no check=True) returns.
SolverRead(p) ==
    /\ pc[p] = "written"
    /\ IF Exists(CnfName)
       THEN /\ solverIn' = [solverIn EXCEPT ![p] = fs[CnfName]]
            /\ pc' = [pc EXCEPT ![p] = "solving"]
       ELSE /\ solverIn' = solverIn
            /\ pc' = [pc EXCEPT ![p] = "solved"]
    /\ UNCHANGED <<codec, text, grid, dimacs, fs, answer, ret, stdout>>

\* line 97, minisat writes its result file and exits
SolverWrite(p, lines) ==
    /\ pc[p] = "solving"
    /\ fs' = [fs EXCEPT ![OutName] = <<OutContent(lines, p)>>]
    /\ pc' = [pc EXCEPT ![p] = "solved"]
    /\ UNCHANGED <<codec, text, grid, dimacs, solverIn, answer, ret, stdout>>

\* line 97, minisat dies before it writes its result file
SolverDies(p) ==
    /\ pc[p] = "solving"
    /\ pc' = [pc EXCEPT ![p] = "solved"]
    /\ UNCHANGED <<codec, text, grid, dimacs, fs, solverIn, answer, ret, stdout>>

\* lines 98-99: open(out.tmp, 'r') raises FileNotFoundError when absent
ReadOut(p) ==
    /\ pc[p] = "solved"
    /\ IF Exists(OutName)
       THEN /\ answer' = [answer EXCEPT ![p] = fs[OutName][1]]
            /\ pc' = [pc EXCEPT ![p] = "read"]
            /\ ret' = ret
       ELSE /\ answer' = answer
            /\ pc' = [pc EXCEPT ![p] = "raised"]
            /\ ret' = [ret EXCEPT ![p] = Raised("FileNotFoundError")]
    /\ UNCHANGED <<codec, text, grid, dimacs, fs, solverIn, stdout>>

\* os.remove(name): raises FileNotFoundError when the file is absent
Remove(p, name, from, to) ==
    /\ pc[p] = from
    /\ IF Exists(name)
       THEN /\ fs' = [fs EXCEPT ![name] = <<>>]
            /\ pc' = [pc EXCEPT ![p] = to]
            /\ ret' = ret
       ELSE /\ fs' = fs
            /\ pc' = [pc EXCEPT ![p] = "raised"]
            /\ ret' = [ret EXCEPT ![p] = Raised("FileNotFoundError")]
    /\ UNCHANGED <<codec, text, grid, dimacs, solverIn, answer, stdout>>

\* line 101
RemoveCnf(p) == Remove(p, CnfName, "read", "removed_cnf")

\* line 102
RemoveOut(p) == Remove(p, OutName, "removed_cnf", "removed_out")

\* lines 104-114 on the lines read from out.tmp. The second line is kept
\* as the set of its integer tokens, which is what line 107 makes of it.
ParseResult(lines) ==
    IF Len(lines) < 1 THEN Raised("IndexError")
    ELSE IF lines[1] = "UNSAT" THEN [kind |-> "UNSAT"]
    ELSE IF Len(lines) < 2 THEN Raised("IndexError")
    ELSE [kind |-> "grid", grid |-> DecodeGrid(lines[2])]

Parse(p) ==
    /\ pc[p] = "removed_out"
    /\ ret' = [ret EXCEPT ![p] = ParseResult(answer[p].lines)]
    /\ pc' = [pc EXCEPT
                ![p] = IF ParseResult(answer[p].lines).kind = "raised"
                       THEN "raised" ELSE "returned"]
    /\ UNCHANGED <<codec, text, grid, dimacs, fs, solverIn, answer, stdout>>

----------------------------------------------------------------------------
(* main(): lines 26-33 of main.py                                          *)

\* str(solution[i][j]): a cell the decoder left unset prints as None
StrOfCell(v) == IF v = None THEN "None" ELSE Str(v)

PrintedGrid(solution) ==
    [r \in 1..9 |-> [c \in 1..9 |-> StrOfCell(solution[r][c])]]

PrintSolution(p) ==
    /\ pc[p] = "returned"
    /\ stdout' = IF ret[p].kind = "UNSAT" THEN <<>>
                 ELSE PrintedGrid(ret[p].grid)
    /\ pc' = [pc EXCEPT ![p] = "done"]
    /\ UNCHANGED <<codec, text, grid, dimacs, fs, solverIn, answer, ret>>

----------------------------------------------------------------------------
(* Spec: one run of main() on a puzzle text                                *)

NoAnswer == OutContent(<<>>, 0)

\* Nothing written, nothing run yet
Fresh ==
    /\ grid = <<>>
    /\ fs = [name \in FileNames |-> <<>>]
    /\ solverIn = [p \in Procs |-> <<>>]
    /\ answer = [p \in Procs |-> NoAnswer]
    /\ ret = [p \in Procs |-> NoReturn]
    /\ stdout = <<>>

NoLiteral == [at |-> "idle"]

Init ==
    /\ text \in Texts
    /\ dimacs = [p \in Procs |-> NoCnf]
    /\ pc = [p \in Procs |-> IF p = 1 THEN "main" ELSE "idle"]
    /\ codec = NoLiteral
    /\ Fresh

Next ==
    \/ ReadGrid(1)
    \/ Encode(1)
    \/ WriteCnf(1)
    \/ SolverMissing(1)
    \/ SolverRead(1)
    \/ \E lines \in Answers : SolverWrite(1, lines)
    \/ SolverDies(1)
    \/ ReadOut(1)
    \/ RemoveCnf(1)
    \/ RemoveOut(1)
    \/ Parse(1)
    \/ PrintSolution(1)

Spec == Init /\ [][Next]_vars

----------------------------------------------------------------------------
(* SpecCodec: one literal through to_int and back through the scan         *)

Literals == [i : 0..8, j : 0..8, k : 1..9, neg : BOOLEAN]

VarName(lit) ==
    IF lit.neg THEN Neg(lit.i, lit.j, lit.k) ELSE Pos(lit.i, lit.j, lit.k)

InitCodec ==
    /\ codec \in [at : {"name"}, lit : Literals]
    /\ text = <<>>
    /\ dimacs = [p \in Procs |-> NoCnf]
    /\ pc = [p \in Procs |-> "idle"]
    /\ Fresh

\* to_int(var_name) on the literal's name
EncodeLiteral ==
    /\ codec.at = "name"
    /\ codec' = [at |-> "coded", lit |-> codec.lit,
                 code |-> to_int(VarName(codec.lit))]
    /\ UNCHANGED <<text, grid, dimacs, pc, fs, solverIn, answer, ret, stdout>>

\* the decoder's scan on an answer that holds this one token
ScanLiteral ==
    /\ codec.at = "coded"
    /\ codec' = [at |-> "scanned", lit |-> codec.lit, code |-> codec.code,
                 scan |-> DecodeGrid({codec.code})]
    /\ UNCHANGED <<text, grid, dimacs, pc, fs, solverIn, answer, ret, stdout>>

NextCodec == EncodeLiteral \/ ScanLiteral

SpecCodec == InitCodec /\ [][NextCodec]_vars

----------------------------------------------------------------------------
(* SpecConc: two invocations of solution_from_dimacs_string at once        *)

\* The invocations are handed the unit clause {+(0,0,k)}, k in 1..ConcDigits
ConcDigits == 2

UnitCnfs ==
    {dimacs_string_from_constraints(<< <<Pos(0, 0, k)>> >>) :
        k \in 1..ConcDigits}

\* minisat on a CNF of unit clauses: SAT, with just their variables true
UnitAnswer(cnf) ==
    <<"SAT",
      AnswerLine({cnf.clauses[n][1] : n \in 1..Len(cnf.clauses)})>>

InitConc ==
    /\ dimacs \in [Procs -> UnitCnfs]
    /\ pc = [p \in Procs |-> "call"]
    /\ text = <<>>
    /\ codec = NoLiteral
    /\ Fresh

NextConc ==
    \E p \in Procs :
        \/ WriteCnf(p)
        \/ SolverMissing(p)
        \/ SolverRead(p)
        \/ SolverWrite(p, UnitAnswer(solverIn[p][1]))
        \/ SolverDies(p)
        \/ ReadOut(p)
        \/ RemoveCnf(p)
        \/ RemoveOut(p)
        \/ Parse(p)

SpecConc == InitConc /\ [][NextConc]_vars

----------------------------------------------------------------------------
(* Claims checked under Spec                                               *)

\* Invocation 1 has returned from solution_from_dimacs_string with a
\* two-line answer: answer[1].lines[2] is the assignment it decoded.
Decoded ==
    /\ pc[1] = "returned"
    /\ ret[1].kind = "grid"

Assignment == answer[1].lines[2]

GivensAreDigits(g) ==
    \A ij \in GivenCells(g) : Cell(g, ij[1], ij[2]) \in 1..9

\* The cell a variable id belongs to
CellOfId(id) == id \div 10

\* No clause forbids two cells from holding the same digit: the negative
\* literals of a clause all belong to one cell.
NoAtMostOncePerUnit(cnf) ==
    \A n \in 1..Len(cnf.clauses) :
        \A m1, m2 \in 1..(Len(cnf.clauses[n]) - 1) :
            (cnf.clauses[n][m1] < 0 /\ cnf.clauses[n][m2] < 0)
                => CellOfId(0 - cnf.clauses[n][m1])
                       = CellOfId(0 - cnf.clauses[n][m2])

\* C1: for a partial grid whose givens are digits 1..9, every assignment
\* that satisfies all the clauses of constraints_from_grid decodes to a
\* full grid in which every row, column and box holds each of 1..9 exactly
\* once and every given cell keeps its digit, and the clause set has no
\* at-most-once-per-row/column/box clause.
C1_Soundness ==
    (Decoded /\ GivensAreDigits(grid) /\ Satisfies(Assignment, dimacs[1]))
        => /\ ValidSudoku(ret[1].grid)
           /\ KeepsGivens(ret[1].grid, grid)
           /\ NoAtMostOncePerUnit(dimacs[1])

\* A puzzle with blank and given cells, solved by an assignment that is
\* not BaseGrid's.
C1_Witness ==
    /\ Decoded
    /\ GivenCells(grid) # {}
    /\ GivenCells(grid) # (0..8) \X (0..8)
    /\ GivensAreDigits(grid)
    /\ ret[1].grid # BaseGrid
    /\ Satisfies(Assignment, dimacs[1])

Width(clause) == Len(clause)

\* C2: for a grid with g given cells constraints_from_grid returns exactly
\* g + 3240 clauses: g unit clauses, then 81 of width 9 (occupancy), 2916
\* of width 2 (uniqueness), and 81 of width 9 each for rows, columns, boxes.
C2_ClauseCount ==
    pc[1] = "call" =>
        LET cs == constraints_from_grid(grid)
            g  == Cardinality(GivenCells(grid))
        IN  /\ Len(cs) = g + 3240
            /\ dimacs[1].header[2] = g + 3240
            /\ \A n \in 1..Len(cs) :
                  Width(cs[n]) = IF n <= g THEN 1
                                 ELSE IF n <= g + 81 THEN 9
                                 ELSE IF n <= g + 81 + 2916 THEN 2
                                 ELSE 9

C2_Witness ==
    /\ pc[1] = "call"
    /\ Cardinality(GivenCells(grid)) \in 1..80
    /\ Len(dimacs[1].clauses) = Cardinality(GivenCells(grid)) + 3240

FullGrid(g) == GivenCells(g) = (0..8) \X (0..8)

\* C4: for a completely filled valid grid G the clause set generated from
\* G is satisfied by the assignment "x_i_j_k iff G[i][j] = k", and every
\* satisfying assignment of it decodes back to exactly G.
C4_RoundTrip ==
    (pc[1] \in {"call", "returned"} /\ FullGrid(grid) /\ GivensAreDigits(grid)
        /\ ValidSudoku(grid))
        => IF pc[1] = "call"
           THEN Satisfies(AnswerLine(IdsOfGrid(grid)), dimacs[1])
           ELSE (ret[1].kind = "grid" /\ Satisfies(Assignment, dimacs[1]))
                    => ret[1].grid = grid

\* A full valid grid other than BaseGrid came back from a satisfying
\* assignment.
C4_Witness ==
    /\ Decoded
    /\ FullGrid(grid)
    /\ GivensAreDigits(grid)
    /\ ValidSudoku(grid)
    /\ grid # BaseGrid
    /\ Satisfies(Assignment, dimacs[1])
    /\ ret[1].grid = grid

\* The same digit is given in two different cells of one row.
HasRowDuplicate(g) ==
    \E i \in 0..8 : \E j1, j2 \in 0..8 :
        /\ j1 # j2
        /\ Cell(g, i, j1) \in 1..9
        /\ Cell(g, i, j1) = Cell(g, i, j2)

\* C5: for a grid with the same digit given twice in one row, no
\* assignment satisfies the clause set: an answer the decoder turned into
\* a grid is never a satisfying assignment, and the only other outcome the
\* call returns is the "UNSAT" sentinel.
C5_RowContradiction ==
    (pc[1] = "returned" /\ HasRowDuplicate(grid))
        => IF ret[1].kind = "grid"
           THEN ~Satisfies(Assignment, dimacs[1])
           ELSE /\ answer[1].lines[1] = "UNSAT"
                /\ ret[1].kind = "UNSAT"

\* A grid with a row duplicate met an answer that agrees with every given
\* and keeps every column and box a permutation.
C5_Witness ==
    /\ Decoded
    /\ HasRowDuplicate(grid)
    /\ KeepsGivens(ret[1].grid, grid)
    /\ \A u \in 0..8 : /\ IsPermutation(ColumnOf(ret[1].grid, u))
                       /\ IsPermutation(BoxOf(ret[1].grid, u))

\* A character of the puzzle text that is neither '1'..'9' nor the blank
Malformed(ch) == ch # Blank /\ ch \notin {Digits[n + 1] : n \in 1..9}

HasMalformedChar(lines) ==
    \E r \in 1..Len(lines) : \E c \in 1..Len(lines[r]) : Malformed(lines[r][c])

\* C6: grid_from_file fails whenever a character of the puzzle text is
\* neither '1'..'9' nor the blank ('0', letters, punctuation); no such
\* character reaches the returned grid as a given.
C6_RejectsMalformedText ==
    HasMalformedChar(text) => /\ pc[1] \in {"main", "raised"}
                              /\ grid = <<>>

\* C7: once the CNF file has been written, constraints.dimacs.tmp and
\* out.tmp are both absent when solution_from_dimacs_string returns or
\* raises, whatever the solver did.
C7_CleanupAlways ==
    pc[1] \in {"returned", "raised"}
        => ~Exists(CnfName) /\ ~Exists(OutName)

\* C8: the decoder never returns a grid in which some cell is left unset
\* (None); an assignment with no positive id for a cell raises an error.
C8_NoUnsetCell ==
    (pc[1] = "returned" /\ ret[1].kind = "grid")
        => \A r \in 1..9 : \A c \in 1..9 : ret[1].grid[r][c] # None

\* C9: a solver output whose first line is neither SAT nor UNSAT, or a SAT
\* output with no second line, is rejected with an error and never decoded
\* into a grid.
C9_RejectsMalformedAnswer ==
    pc[1] = "returned"
        => /\ answer[1].lines[1] \in {"SAT", "UNSAT"}
           /\ (answer[1].lines[1] = "SAT" => Len(answer[1].lines) >= 2)

----------------------------------------------------------------------------
(* Claim checked under SpecCodec                                           *)

Abs(n) == IF n < 0 THEN 0 - n ELSE n

\* C3: for row, column in 0..8, digit in 1..9 and either polarity, to_int
\* yields sign*(100*row + 10*column + digit) with absolute value in
\* 1..889; row = id div 100, column = (id mod 100) div 10, digit = id mod 10
\* and the sign give the literal back; no other literal has the same code;
\* and the decoder's test 100*i + 10*j + k picks exactly the encoded triple.
C3_CodecBijection ==
    codec.at \in {"coded", "scanned"} =>
        LET lit == codec.lit
            id  == Abs(codec.code)
        IN  /\ codec.code = (IF lit.neg THEN -1 ELSE 1)
                                * (100 * lit.i + 10 * lit.j + lit.k)
            /\ id \in 1..889
            /\ id \div 100 = lit.i
            /\ (id % 100) \div 10 = lit.j
            /\ id % 10 = lit.k
            /\ (codec.code < 0) = lit.neg
            /\ codec.at = "coded" =>
                  \A other \in Literals :
                      to_int(VarName(other)) = codec.code => other = lit
            /\ codec.at = "scanned" =>
                  \A r \in 1..9 : \A c \in 1..9 :
                      codec.scan[r][c] =
                          IF ~lit.neg /\ r - 1 = lit.i /\ c - 1 = lit.j
                          THEN lit.k ELSE None

\* The literal +(8,8,9), whose code is the largest, has been scanned back.
C3_Witness ==
    /\ codec.at = "scanned"
    /\ codec.lit = [i |-> 8, j |-> 8, k |-> 9, neg |-> FALSE]
    /\ codec.code = num_variables
    /\ codec.scan[9][9] = 9

----------------------------------------------------------------------------
(* Claim checked under SpecConc                                            *)

\* C10: with two invocations running at once, no invocation's solver reads
\* the other's CNF file, no invocation decodes the other's solver output,
\* and none removes a file the other still needs.
C10_Isolation ==
    \A p \in Procs :
        /\ solverIn[p] # <<>> => solverIn[p][1] = dimacs[p]
        /\ answer[p] # NoAnswer => answer[p].by = p
        /\ pc[p] \in {"written", "read"} => Exists(CnfName)
        /\ pc[p] = "removed_cnf" => Exists(OutName)

====
